---- MODULE Spec2Model ----
(***************************************************************************)
(* Payment-gated retrieval demo: the Agent Orchestrator (create_task,      *)
(* run_workflow), the Payment Manager (create_token, get_balance) and the  *)
(* Marketplace mock (get_detail, pay), as one state machine.               *)
(*                                                                         *)
(* uuid.uuid4() is modelled as a fresh identifier: task ids and token ids  *)
(* are 1, 2, 3, ... in order of creation.  A payment-token header is an    *)
(* integer: NoToken (0) is an absent or empty header, n >= 1 is the        *)
(* non-empty string of token n.  Text (r.text, the report) is a sequence   *)
(* of string fragments.                                                    *)
(***************************************************************************)
EXTENDS Integers, Sequences, FiniteSets, TLC

\* ------------------------------------------------------------- bounds
MaxTasks == 2
MaxRuns == 2
MaxTokens == 2
MaxClientCalls == 3

TaskIds == 1..MaxTasks
Runs == 1..MaxRuns
Themes == {"test"}
Voices == {"v1"}
TaskBudgets == {-1, 5, 50}
TokenBudgets == {-1, 0, 7}
Amounts == {0, 10}
ResourceIds == {"1", "2"}
NoToken == 0
Headers == 0..MaxTokens

VARIABLES
  TASKS,        \* orchestrator: task id -> task record (dict)
  TOKENS,       \* payment manager: token id -> budget
  pc,           \* run -> position inside run_workflow
  task_id,      \* run -> argument task_id
  r,            \* run -> local r (last marketplace response)
  price,        \* run -> local price
  token_id,     \* run -> local token_id
  calls,        \* run -> requests this run has delivered, in order
  reentered,    \* run -> the task already held a report when the run began
  nRuns,        \* number of run_workflow invocations so far
  issued,       \* history: token id -> budget asked for in the POST /token
  settled,      \* history: the (tokenId, amount) for which POST /pay answered success
  lastDetail,   \* last answer of GET /company/detail, with its request
  lastPay,      \* last answer of POST /pay, with its request
  lastBalance,  \* last answer of GET /balance/{token_id}, with its request
  nClient       \* number of requests sent by clients other than the workflow

vars == <<TASKS, TOKENS, pc, task_id, r, price, token_id, calls, reentered,
          nRuns, issued, settled, lastDetail, lastPay, lastBalance, nClient>>

\* -------------------------------------------------- marketplace mock
DETAIL == [x \in {"1"} |->
             [id |-> "1", name |-> "ACME Corp", description |-> "A company"]]

QuotedPrice == 10

\* JSON text of a company record, as fragments
RecordText(d) ==
  <<"{\"id\":", d.id, ",\"name\":", d.name, ",\"description\":", d.description, "}">>

\* HTTPException(status_code=402, detail={"price": 10}): the framework wraps
\* the detail, the body is {"detail": {"price": 10}}
PaymentRequired ==
  [status_code |-> 402,
   json |-> [detail |-> [price |-> QuotedPrice]],
   text |-> <<"{\"detail\":{\"price\":", ToString(QuotedPrice), "}}">>]

\* return DETAIL.get(id): the record, or None (body null) for an unknown id
Granted(id) ==
  IF id \in DOMAIN DETAIL
    THEN [status_code |-> 200, json |-> DETAIL[id], text |-> RecordText(DETAIL[id])]
    ELSE [status_code |-> 200, json |-> <<>>, text |-> <<"null">>]

\* get_detail(id, x_payment_token)
get_detail(id, x_payment_token) ==
  IF x_payment_token = NoToken THEN PaymentRequired ELSE Granted(id)

\* pay(req)
pay(tokenId, amount) == [success |-> TRUE]

\* ---------------------------------------------------- payment manager
\* (variant: the balance is not initialised from the request)
StoreTokenEmpty(tokens, tid, budget) ==
  [t \in DOMAIN tokens \cup {tid} |-> IF t = tid THEN 0 ELSE tokens[t]]

\* TOKENS[token_id] = req.budget
StoreToken(tokens, tid, budget) ==
  [t \in DOMAIN tokens \cup {tid} |-> IF t = tid THEN budget ELSE tokens[t]]

\* TOKENS.get(token_id, 0)
get_balance(tokens, tid) ==
  IF tid \in DOMAIN tokens THEN tokens[tid] ELSE 0

\* str(uuid.uuid4()) in create_token
FreshToken == Cardinality(DOMAIN TOKENS) + 1

\* -------------------------------------------------------- orchestrator
\* str(uuid.uuid4()) in create_task
FreshTask == Cardinality(DOMAIN TASKS) + 1

\* dict.get(key, default) on a JSON object
JsonGet(obj, key, default) ==
  IF key \in DOMAIN obj THEN obj[key] ELSE default

\* f"## {theme}\n\n{r.text}"
Report(theme, text) == <<"## ", theme, "\n\n">> \o text

\* TASKS[task_id]["report"] = report
WithReport(task, report) ==
  [k \in DOMAIN task \cup {"report"} |-> IF k = "report" THEN report ELSE task[k]]

\* dict.get(key) on a task record: None when the key is absent
TaskGet(task, key) ==
  IF key \in DOMAIN task THEN task[key] ELSE "None"

Contains(text, fragment) == \E i \in 1..Len(text) : text[i] = fragment

NoResponse == [status_code |-> 0, json |-> <<>>, text |-> <<>>]
NoDetail == [id |-> "1", token |-> NoToken, status_code |-> 0]
NoPay == [tokenId |-> 0, amount |-> 0, success |-> FALSE, asked |-> FALSE]
NoBalance == [token_id |-> 0, balance |-> 0, known |-> FALSE, asked |-> FALSE]

Call(op, tok, amt) == [op |-> op, tok |-> tok, amt |-> amt]

Init ==
  /\ TASKS = <<>>
  /\ TOKENS = <<>>
  /\ pc = [w \in Runs |-> "idle"]
  /\ task_id = [w \in Runs |-> 0]
  /\ r = [w \in Runs |-> NoResponse]
  /\ price = [w \in Runs |-> 0]
  /\ token_id = [w \in Runs |-> NoToken]
  /\ calls = [w \in Runs |-> <<>>]
  /\ reentered = [w \in Runs |-> FALSE]
  /\ nRuns = 0
  /\ issued = <<>>
  /\ settled = {}
  /\ lastDetail = NoDetail
  /\ lastPay = NoPay
  /\ lastBalance = NoBalance
  /\ nClient = 0

locals == <<r, price, token_id, calls, reentered>>
history == <<issued, settled, lastDetail, lastPay, lastBalance>>
sched == <<pc, task_id, nRuns>>

\* background_tasks.add_task(run_workflow, task_id), or a direct call
Schedule(tid) ==
  /\ nRuns < MaxRuns
  /\ nRuns' = nRuns + 1
  /\ pc' = [pc EXCEPT ![nRuns + 1] = "scheduled"]
  /\ task_id' = [task_id EXCEPT ![nRuns + 1] = tid]

\* POST /tasks
create_task(theme, budget, voice_id) ==
  /\ FreshTask \in TaskIds
  /\ TASKS' = [t \in DOMAIN TASKS \cup {FreshTask} |->
                 IF t = FreshTask
                   THEN [theme |-> theme, budget |-> budget, voice_id |-> voice_id]
                   ELSE TASKS[t]]
  /\ Schedule(FreshTask)
  /\ UNCHANGED <<TOKENS, locals, history, nClient>>

\* run_workflow(task_id) called directly, as the workflow test does
Invoke(tid) ==
  /\ Schedule(tid)
  /\ UNCHANGED <<TASKS, TOKENS, locals, history, nClient>>

\* (variant: the run goes on to the probe without looking the task up)
BeginUnchecked(w) ==
  /\ pc[w] = "scheduled"
  /\ pc' = [pc EXCEPT ![w] = "probe"]
  /\ UNCHANGED <<TASKS, TOKENS, task_id, locals, nRuns, history, nClient>>

\* run_workflow, lines 36-46: look the task up, return if there is none
Begin(w) ==
  /\ pc[w] = "scheduled"
  /\ IF task_id[w] \in DOMAIN TASKS
       THEN /\ pc' = [pc EXCEPT ![w] = "probe"]
            /\ reentered' = [reentered EXCEPT ![w] = "report" \in DOMAIN TASKS[task_id[w]]]
       ELSE /\ pc' = [pc EXCEPT ![w] = "returned"]
            /\ UNCHANGED reentered
  /\ UNCHANGED <<TASKS, TOKENS, task_id, r, price, token_id, calls, nRuns, history, nClient>>

\* ---- the handlers, as the state change and the answer of one request
\* GET /company/detail, answered resp
DetailAnswer(id, x_payment_token, resp) ==
  lastDetail' = [id |-> id, token |-> x_payment_token,
                 status_code |-> resp.status_code]

\* GET /company/detail, answered by the marketplace mock
DetailRequest(id, x_payment_token) ==
  DetailAnswer(id, x_payment_token, get_detail(id, x_payment_token))

\* POST /pay
PayRequest(tokenId, amount) ==
  /\ lastPay' = [tokenId |-> tokenId, amount |-> amount,
                 success |-> pay(tokenId, amount).success, asked |-> TRUE]
  /\ settled' = IF pay(tokenId, amount).success
                  THEN settled \cup {[tokenId |-> tokenId, amount |-> amount]}
                  ELSE settled

\* POST /token on the payment manager
create_token(budget, voice_id) ==
  /\ TOKENS' = StoreToken(TOKENS, FreshToken, budget)
  /\ issued' = [t \in DOMAIN issued \cup {FreshToken} |->
                  IF t = FreshToken THEN budget ELSE issued[t]]

\* ---- run_workflow, one step per network call
\* (variant: the settlement is sent right after the priced refusal, before
\* any token was requested)
ProbeThenSettle(w, resp) ==
  /\ pc[w] = "probe"
  /\ r' = [r EXCEPT ![w] = resp]
  /\ IF resp.status_code = 402
       THEN /\ price' = [price EXCEPT ![w] = JsonGet(resp.json, "price", 0)]
            /\ pc' = [pc EXCEPT ![w] = "pay"]
       ELSE /\ pc' = [pc EXCEPT ![w] = "store"]
            /\ UNCHANGED price
  /\ DetailAnswer("1", NoToken, resp)
  /\ calls' = [calls EXCEPT ![w] = Append(@, Call("probe", NoToken, 0))]
  /\ UNCHANGED <<TASKS, TOKENS, task_id, token_id, reentered, nRuns,
                 issued, settled, lastPay, lastBalance, nClient>>

\* line 47-49: r = marketplace_client.get(detail_path), answered resp;
\* price on a 402
ProbeStep(w, resp) ==
  /\ pc[w] = "probe"
  /\ r' = [r EXCEPT ![w] = resp]
  /\ IF resp.status_code = 402
       THEN /\ price' = [price EXCEPT ![w] = JsonGet(resp.json, "price", 0)]
            /\ pc' = [pc EXCEPT ![w] = "token"]
       ELSE /\ pc' = [pc EXCEPT ![w] = "store"]
            /\ UNCHANGED price
  /\ DetailAnswer("1", NoToken, resp)
  /\ calls' = [calls EXCEPT ![w] = Append(@, Call("probe", NoToken, 0))]
  /\ UNCHANGED <<TASKS, TOKENS, task_id, token_id, reentered, nRuns,
                 issued, settled, lastPay, lastBalance, nClient>>

\* the probe against the marketplace mock
Probe(w) == ProbeStep(w, get_detail("1", NoToken))

\* line 50-51: token_resp = payment_client.post("/token", ...); token_id
RequestToken(w) ==
  /\ pc[w] = "token"
  /\ create_token(price[w], TASKS[task_id[w]].voice_id)
  /\ token_id' = [token_id EXCEPT ![w] = FreshToken]
  /\ calls' = [calls EXCEPT ![w] = Append(@, Call("token", FreshToken, price[w]))]
  /\ pc' = [pc EXCEPT ![w] = "pay"]
  /\ UNCHANGED <<TASKS, task_id, r, price, reentered, nRuns,
                 settled, lastDetail, lastPay, lastBalance, nClient>>

\* (variant: the settlement consumes the token in the payment manager)
SettleConsumes(w) ==
  /\ pc[w] = "pay"
  /\ PayRequest(token_id[w], price[w])
  /\ TOKENS' = [t \in DOMAIN TOKENS \ {token_id[w]} |-> TOKENS[t]]
  /\ calls' = [calls EXCEPT ![w] = Append(@, Call("pay", token_id[w], price[w]))]
  /\ pc' = [pc EXCEPT ![w] = "retry"]
  /\ UNCHANGED <<TASKS, task_id, r, price, token_id, reentered, nRuns,
                 issued, lastDetail, lastBalance, nClient>>

\* line 52: marketplace_client.post("/pay", ...); the answer is not read
Settle(w) ==
  /\ pc[w] = "pay"
  /\ PayRequest(token_id[w], price[w])
  /\ calls' = [calls EXCEPT ![w] = Append(@, Call("pay", token_id[w], price[w]))]
  /\ pc' = [pc EXCEPT ![w] = "retry"]
  /\ UNCHANGED <<TASKS, TOKENS, task_id, r, price, token_id, reentered, nRuns,
                 issued, lastDetail, lastBalance, nClient>>

\* line 53: r = marketplace_client.get(detail_path, headers=...), answered resp
RetryStep(w, resp) ==
  /\ pc[w] = "retry"
  /\ r' = [r EXCEPT ![w] = resp]
  /\ DetailAnswer("1", token_id[w], resp)
  /\ calls' = [calls EXCEPT ![w] = Append(@, Call("retry", token_id[w], 0))]
  /\ pc' = [pc EXCEPT ![w] = "store"]
  /\ UNCHANGED <<TASKS, TOKENS, task_id, price, token_id, reentered, nRuns,
                 issued, settled, lastPay, lastBalance, nClient>>

\* the authenticated retrieval against the marketplace mock
Retry(w) == RetryStep(w, get_detail("1", token_id[w]))

\* (variant: the report goes to the task submitted last, not to the run's own)
StoreLatest(w) ==
  /\ pc[w] = "store"
  /\ TASKS' = [TASKS EXCEPT ![Cardinality(DOMAIN TASKS)] =
                 WithReport(@, Report(TASKS[task_id[w]].theme, r[w].text))]
  /\ pc' = [pc EXCEPT ![w] = "done"]
  /\ UNCHANGED <<TOKENS, task_id, locals, nRuns, history, nClient>>

\* line 54: TASKS[task_id]["report"] = f"## {theme}\n\n{r.text}"
\* (theme was read at line 41; no operation changes a task's theme)
Store(w) ==
  /\ pc[w] = "store"
  /\ TASKS' = [TASKS EXCEPT ![task_id[w]] = WithReport(@, Report(@.theme, r[w].text))]
  /\ pc' = [pc EXCEPT ![w] = "done"]
  /\ UNCHANGED <<TOKENS, task_id, locals, nRuns, history, nClient>>

\* a network call of lines 47, 50, 52, 53 finds the server unreachable:
\* httpx raises, run_workflow has no handler, the exception leaves it
Unreachable(w) ==
  /\ pc[w] \in {"probe", "token", "pay", "retry"}
  /\ pc' = [pc EXCEPT ![w] = "raised"]
  /\ UNCHANGED <<TASKS, TOKENS, task_id, locals, nRuns, history, nClient>>

\* ---- requests of other clients, straight to the services
ClientCall ==
  /\ nClient < MaxClientCalls
  /\ nClient' = nClient + 1

GetDetail(id, x_payment_token) ==
  /\ ClientCall
  /\ DetailRequest(id, x_payment_token)
  /\ UNCHANGED <<TASKS, TOKENS, sched, locals, issued, settled, lastPay, lastBalance>>

PostPay(tokenId, amount) ==
  /\ ClientCall
  /\ PayRequest(tokenId, amount)
  /\ UNCHANGED <<TASKS, TOKENS, sched, locals, issued, lastDetail, lastBalance>>

PostToken(budget, voice_id) ==
  /\ ClientCall
  /\ FreshToken <= MaxTokens
  /\ create_token(budget, voice_id)
  /\ UNCHANGED <<TASKS, sched, locals, settled, lastDetail, lastPay, lastBalance>>

\* GET /balance/{token_id}
GetBalance(tid) ==
  /\ ClientCall
  /\ lastBalance' = [token_id |-> tid, balance |-> get_balance(TOKENS, tid),
                     known |-> tid \in DOMAIN issued, asked |-> TRUE]
  /\ UNCHANGED <<TASKS, TOKENS, sched, locals, issued, settled, lastDetail, lastPay>>

\* the orchestrator and its workflow, calling the two services
Next ==
  \/ \E th \in Themes, b \in TaskBudgets, v \in Voices : create_task(th, b, v)
  \/ \E t \in TaskIds : Invoke(t)
  \/ \E w \in Runs : Begin(w)
  \/ \E w \in Runs : Probe(w)
  \/ \E w \in Runs : RequestToken(w)
  \/ \E w \in Runs : Settle(w)
  \/ \E w \in Runs : Retry(w)
  \/ \E w \in Runs : Store(w)
  \/ \E w \in Runs : Unreachable(w)

Spec == Init /\ [][Next]_vars

\* ---- run_workflow against any marketplace: marketplace_client is a
\* parameter and its base URL is configuration, so the answers to the two
\* GETs are inputs
\* a 402 whose body states the price at top level, {"price": 10}
FlatRefusal ==
  [status_code |-> 402,
   json |-> [price |-> QuotedPrice],
   text |-> <<"{\"price\":", ToString(QuotedPrice), "}">>]

\* a 500 with a plain-text body
ServerError ==
  [status_code |-> 500, json |-> <<>>, text |-> <<"Internal Server Error">>]

MarketAnswers == {PaymentRequired, FlatRefusal, Granted("1"), ServerError}

ProbeAny(w) == \E resp \in MarketAnswers : ProbeStep(w, resp)

RetryAny(w) == \E resp \in MarketAnswers : RetryStep(w, resp)

NextAnyMarket ==
  \/ \E th \in Themes, b \in TaskBudgets, v \in Voices : create_task(th, b, v)
  \/ \E t \in TaskIds : Invoke(t)
  \/ \E w \in Runs : Begin(w)
  \/ \E w \in Runs : ProbeAny(w)
  \/ \E w \in Runs : RequestToken(w)
  \/ \E w \in Runs : Settle(w)
  \/ \E w \in Runs : RetryAny(w)
  \/ \E w \in Runs : Store(w)
  \/ \E w \in Runs : Unreachable(w)

SpecAnyMarket == Init /\ [][NextAnyMarket]_vars

\* the two services under the requests of arbitrary clients
NextServices ==
  \/ \E id \in ResourceIds, h \in Headers : GetDetail(id, h)
  \/ \E t \in 1..MaxTokens, a \in Amounts : PostPay(t, a)
  \/ \E b \in TokenBudgets, v \in Voices : PostToken(b, v)
  \/ \E t \in 1..MaxTokens : GetBalance(t)

SpecServices == Init /\ [][NextServices]_vars

\* ---------------------------------------------------------- properties
Stopped(w) == pc[w] \in {"done", "raised"}
TaskOf(w) == TASKS[task_id[w]]
SettledTokens == {s.tokenId : s \in settled}

\* Every report a workflow stores is the theme heading followed by the
\* company record of the authenticated retrieval.
ReportHoldsResource ==
  \A t \in DOMAIN TASKS :
    "report" \in DOMAIN TASKS[t] =>
      TASKS[t].report = Report(TASKS[t].theme, RecordText(DETAIL["1"]))

\* C1: a run for a task whose budget is at least the quoted price, once the
\* authenticated retrieval has answered the resource, ends with the task in
\* status completed and a report holding the resource content.
C1_CompletedWithReport ==
  \A w \in Runs :
    (pc[w] = "done" /\ TaskOf(w).budget >= QuotedPrice /\ r[w].status_code = 200) =>
      /\ TaskGet(TaskOf(w), "status") = "completed"
      /\ "report" \in DOMAIN TaskOf(w)
      /\ Contains(TaskOf(w).report, DETAIL["1"].name)

\* C2: a run for a task whose budget is below the quoted price issues no
\* token and ends with the task failed, reason BudgetExceeded.  (Stated for
\* the budgets the data model allows, 0 <= b < p.)
C2_BudgetExceeded ==
  \A w \in Runs :
    (task_id[w] \in DOMAIN TASKS /\ TaskOf(w).budget >= 0
       /\ TaskOf(w).budget < QuotedPrice) =>
      /\ token_id[w] = NoToken
      /\ \A i \in 1..Len(calls[w]) : calls[w][i].op # "token"
      /\ (pc[w] = "done" /\ calls[w] # <<>>) =>
           /\ TaskGet(TaskOf(w), "status") = "failed"
           /\ TaskGet(TaskOf(w), "error") = "BudgetExceeded"

\* C3: every token a workflow requested for a task was issued with a budget
\* that does not exceed the task's declared budget.
C3_TokenWithinBudget ==
  \A w \in Runs :
    token_id[w] # NoToken => issued[token_id[w]] <= TaskOf(w).budget

\* C4: a run invoked for a task that is already completed (it holds its
\* report and its budget covered the price) sends no request and issues no
\* token.
C4_ReinvocationNoOp ==
  \A w \in Runs :
    (reentered[w] /\ TaskOf(w).budget >= QuotedPrice) =>
      calls[w] = <<>> /\ token_id[w] = NoToken

\* C5: when the quoted price is within the task's budget, the token a run
\* requests after the priced refusal has the quoted price (10) as its
\* budget, the settlement carries the same amount, and the run requests one
\* token only.
C5_TokenForQuotedPrice ==
  \A w \in Runs :
    (task_id[w] \in DOMAIN TASKS /\ TaskOf(w).budget >= QuotedPrice) =>
    /\ Cardinality({i \in 1..Len(calls[w]) : calls[w][i].op = "token"}) <= 1
    /\ \A i \in 1..Len(calls[w]) :
         calls[w][i].op \in {"token", "pay"} => calls[w][i].amt = QuotedPrice
    /\ token_id[w] # NoToken => TOKENS[token_id[w]] = QuotedPrice

\* C6: a settlement whose amount differs from the quoted price is rejected
\* and marks nothing as paid, and a retrieval with a token that was only
\* ever settled with such amounts is refused.
C6_MismatchedSettlementRejected ==
  /\ (lastPay.asked /\ lastPay.amount # QuotedPrice) => ~lastPay.success
  /\ \A s \in settled : s.amount = QuotedPrice
  /\ (/\ lastDetail.token \in SettledTokens
      /\ \A s \in settled : s.tokenId = lastDetail.token => s.amount # QuotedPrice)
       => lastDetail.status_code = 402

\* C7: a request for the priced company record whose token is missing or
\* was never accepted in a settlement gets the priced refusal, never the
\* record.
C7_RecordOnlyAfterSettlement ==
  (/\ lastDetail.status_code # 0
   /\ lastDetail.id \in DOMAIN DETAIL
   /\ lastDetail.token \notin SettledTokens)
    => lastDetail.status_code = 402

\* C8: a run that stops before its four requests went through because a
\* server was unreachable (the task's budget covered the price) has returned
\* normally and left the task failed, reason UpstreamUnavailable.
C8_UnreachableRecorded ==
  \A w \in Runs :
    (Stopped(w) /\ Len(calls[w]) < 4 /\ TaskOf(w).budget >= QuotedPrice) =>
      /\ pc[w] = "done"
      /\ TaskGet(TaskOf(w), "status") = "failed"
      /\ TaskGet(TaskOf(w), "error") = "UpstreamUnavailable"

\* C9: a balance lookup answers the budget the token was issued with, and 0
\* for a token id that was never issued.
C9_BalanceIsIssuedBudget ==
  lastBalance.asked =>
    lastBalance.balance =
      (IF lastBalance.known THEN issued[lastBalance.token_id] ELSE 0)

\* C9 witness: a token issued with budget 7 is looked up before any
\* settlement and the answer is 7.
C9_Witness ==
  /\ lastBalance.asked /\ lastBalance.known
  /\ issued[lastBalance.token_id] = 7
  /\ lastBalance.balance = 7
  /\ settled = {}

\* C10: every stored token has a balance of at least zero.
C10_BalancesNonNegative ==
  \A t \in DOMAIN TOKENS : TOKENS[t] >= 0

\* C11: a submission with a negative budget is rejected: no task record with
\* a negative budget exists and no run is scheduled for one.
C11_NegativeBudgetRejected ==
  /\ \A t \in DOMAIN TASKS : TASKS[t].budget >= 0
  /\ \A w \in Runs :
       (pc[w] # "idle" /\ task_id[w] \in DOMAIN TASKS) => TaskOf(w).budget >= 0

\* C12: every task record carries a status among pending, running,
\* completed and failed (pending from its submission on).
C12_StatusLifecycle ==
  \A t \in DOMAIN TASKS :
    TASKS[t].budget >= 0 =>
    TaskGet(TASKS[t], "status") \in {"pending", "running", "completed", "failed"}

\* C13: a request for a resource id the marketplace does not know is
\* answered not-found, with or without a payment token.
C13_UnknownIdNotFound ==
  (lastDetail.status_code # 0 /\ lastDetail.id \notin DOMAIN DETAIL)
    => lastDetail.status_code = 404

\* the order of the network calls of run_workflow, lines 47, 50, 52, 53
CallOrder == <<"probe", "token", "pay", "retry">>

\* C14: the requests a run has sent are, in order, the probe, the token
\* request, the settlement and the authenticated retry: each is sent only
\* after the ones before it were answered, and the token it carries is the
\* one the token request returned.
C14_CallsInOrder ==
  \A w \in Runs :
    /\ Len(calls[w]) <= Len(CallOrder)
    /\ \A i \in 1..Len(calls[w]) : calls[w][i].op = CallOrder[i]
    /\ Len(calls[w]) \in {2, 3} => r[w].status_code = 402
    /\ \A i \in 3..Len(calls[w]) : calls[w][i].tok = calls[w][2].tok

\* C14 witness: a run has sent all four requests.
C14_Witness ==
  \E w \in Runs : Len(calls[w]) = 4 /\ calls[w][4].op = "retry" /\ pc[w] = "done"

\* the number of requests of kind op a run has sent
Sent(w, ops) == Cardinality({i \in 1..Len(calls[w]) : calls[w][i].op \in ops})

\* no other invocation of run_workflow is for the task of run w
OnlyRunOfTask(w) ==
  \A v \in Runs \ {w} : pc[v] = "idle" \/ task_id[v] # task_id[w]

\* Whatever the marketplace answers, a run sends at most two resource GETs,
\* one token request and one settlement.
AtMostOneCycle ==
  \A w \in Runs :
    /\ Sent(w, {"probe", "retry"}) <= 2
    /\ Sent(w, {"token"}) <= 1
    /\ Sent(w, {"pay"}) <= 1

\* C15: a run whose authenticated retry is refused again ends with the task
\* failed, reason PaymentNotHonored, and no report stored; and a run sends
\* at most two resource GETs, one token request and one settlement.
C15_RefusedRetryFails ==
  /\ AtMostOneCycle
  /\ \A w \in Runs :
       (pc[w] = "done" /\ Len(calls[w]) = 4 /\ r[w].status_code = 402
          /\ OnlyRunOfTask(w) /\ TaskOf(w).budget >= QuotedPrice) =>
         /\ TaskGet(TaskOf(w), "status") = "failed"
         /\ TaskGet(TaskOf(w), "error") = "PaymentNotHonored"
         /\ "report" \notin DOMAIN TaskOf(w)

\* A probe answered with the resource leads to the report of that body with
\* no token request and no settlement.
FreeProbeNoPayment ==
  \A w \in Runs :
    (pc[w] \in {"store", "done"} /\ Len(calls[w]) = 1 /\ r[w].status_code = 200) =>
      /\ token_id[w] = NoToken
      /\ Sent(w, {"token", "pay", "retry"}) = 0
      /\ (pc[w] = "done" /\ OnlyRunOfTask(w)) =>
           TaskOf(w).report = Report(TaskOf(w).theme, RecordText(DETAIL["1"]))

\* C16: a probe answered with the resource ends the run with that body in
\* the report and no token request or settlement; a probe answer that is
\* neither the resource nor a priced refusal does not produce a report.
C16_FreeResourceOnly ==
  /\ FreeProbeNoPayment
  /\ \A w \in Runs :
       (pc[w] = "done" /\ Len(calls[w]) = 1 /\ r[w].status_code \notin {200, 402}
          /\ OnlyRunOfTask(w) /\ TaskOf(w).budget >= QuotedPrice) =>
         "report" \notin DOMAIN TaskOf(w)

\* the record a task has once its workflow, run alone, has stored its report
AloneResult(task) ==
  WithReport(task, Report(task.theme, RecordText(DETAIL["1"])))

\* C17: under every interleaving of runs and submissions no task record is
\* lost, and a task record changes only by the last step of a run for that
\* very task, which makes it the record the run alone would have produced.
C17_TasksIsolated ==
  [][\A t \in DOMAIN TASKS :
       /\ t \in DOMAIN TASKS'
       /\ TASKS'[t] # TASKS[t] =>
            /\ \E w \in Runs :
                 task_id[w] = t /\ pc[w] = "store" /\ pc'[w] = "done"
            /\ TASKS'[t] = AloneResult(TASKS[t])]_vars

\* C17 witness: two runs for different tasks have interleaved (the run
\* scheduled second got its token first) and both tasks hold their report.
C17_Witness ==
  /\ task_id[1] # task_id[2]
  /\ pc[1] = "done" /\ pc[2] = "done"
  /\ token_id[1] = 2 /\ token_id[2] = 1
  /\ TASKS[task_id[1]] = AloneResult(TASKS[task_id[1]])
  /\ TASKS[task_id[2]] = AloneResult(TASKS[task_id[2]])

\* C18: a run invoked with a task id that is not in the task store returns
\* at once: it sends no request and leaves the task store and the token
\* store as they were, and it does nothing afterwards.
C18_UnknownTaskReturns ==
  [][\A w \in Runs :
       /\ (pc[w] = "scheduled" /\ task_id[w] \notin DOMAIN TASKS /\ pc'[w] # pc[w]) =>
            /\ pc'[w] = "returned"
            /\ calls'[w] = <<>> /\ token_id'[w] = NoToken /\ r'[w] = NoResponse
            /\ TASKS' = TASKS /\ TOKENS' = TOKENS
            /\ issued' = issued /\ settled' = settled
       /\ pc[w] = "returned" =>
            /\ pc'[w] = "returned"
            /\ calls'[w] = <<>> /\ token_id'[w] = NoToken]_vars

\* C18 witness: a run was invoked with an unknown task id and has returned.
C18_Witness ==
  \E w \in Runs :
    pc[w] = "returned" /\ task_id[w] \notin DOMAIN TASKS /\ calls[w] = <<>>

\* C19: an issued token stays in the token store with the balance it was
\* issued with: no step, a settlement and a complete workflow run included,
\* removes it or changes its balance, so a balance lookup keeps answering
\* the issued budget.
C19_BalanceFixed ==
  [][\A t \in DOMAIN TOKENS :
       /\ t \in DOMAIN TOKENS'
       /\ TOKENS'[t] = TOKENS[t]
       /\ get_balance(TOKENS', t) = issued[t]]_vars

\* C19 witness: a run has completed after its settlement was accepted, and
\* the balance lookup for its token answers the budget it was issued with.
C19_Witness ==
  \E w \in Runs :
    /\ pc[w] = "done" /\ token_id[w] # NoToken
    /\ token_id[w] \in SettledTokens
    /\ token_id[w] \in DOMAIN TOKENS
    /\ get_balance(TOKENS, token_id[w]) = issued[token_id[w]]
====
